---- MODULE Spec2Model ----
(***************************************************************************)
(* A model of src/src/lit-html.ts: the html tag, Template compilation,     *)
(* TemplateInstance cloning/binding, update, nested-instance reuse and     *)
(* cleanup, over an explicit ordered-tree document heap.                   *)
(*                                                                         *)
(* Strings are sequences of symbols.  A symbol stands for a run of         *)
(* characters that the program never looks inside; the expression marker   *)
(* '{{}}' is one symbol, so String.split(exprMarker) is a split of the     *)
(* sequence at that symbol.                                                *)
(*                                                                         *)
(* Objects live in heaps: `nodes` (DOM nodes), `insts` (TemplateInstance   *)
(* objects) and `tmpls` (Template objects).  A reference is the index of   *)
(* the object in its heap and 0 is null/undefined.                         *)
(***************************************************************************)
EXTENDS Integers, Sequences, FiniteSets, TLC

(***************************************************************************)
(* Bounds of the model.                                                    *)
(***************************************************************************)
NumContainers == 2
MaxHtml == 3
MaxRender == 3
MaxNestedHtml == 4
MaxNestedRender == 4
MaxValuesHtml == 2
MaxValuesRender == 3
MaxSlotsHtml == 3
MaxSlotsRender == 3

Containers == 1..NumContainers

(***************************************************************************)
(* Strings.                                                                *)
(***************************************************************************)
exprMarker == "{{}}"

\* String.prototype.split(exprMarker): the pieces between the markers.
RECURSIVE split(_)
split(str) ==
  IF \A i \in 1..Len(str) : str[i] # exprMarker
  THEN <<str>>
  ELSE LET i == CHOOSE k \in 1..Len(str) :
                  str[k] = exprMarker /\ \A j \in 1..(k-1) : str[j] # exprMarker
       IN  <<SubSeq(str, 1, i-1)>> \o split(SubSeq(str, i+1, Len(str)))

\* Template._getTemplateHtml: the segments joined, the marker between them.
RECURSIVE _getTemplateHtml(_)
_getTemplateHtml(strings) ==
  IF Len(strings) = 0 THEN <<>>
  ELSE IF Len(strings) = 1 THEN strings[1]
  ELSE strings[1] \o <<exprMarker>> \o _getTemplateHtml(Tail(strings))

(***************************************************************************)
(* JavaScript values: strings, undefined, zero-argument functions, arrays, *)
(* TemplateResults and DocumentFragments.  One record shape for all:       *)
(*   k  the kind,  s  the text of a string,                                *)
(*   vs the items of an array, the values of a TemplateResult, or for a    *)
(*      function <<r>> when calling it returns r and <<>> when it throws,  *)
(*   t  the Template of a TemplateResult or the node of a fragment.        *)
(***************************************************************************)
Str(s)         == [k |-> "string",    s |-> s,    vs |-> <<>>,  t |-> 0]
Undefined      == [k |-> "undefined", s |-> <<>>, vs |-> <<>>,  t |-> 0]
Fn(r)          == [k |-> "function",  s |-> <<>>, vs |-> <<r>>, t |-> 0]
FnThrows       == [k |-> "function",  s |-> <<>>, vs |-> <<>>,  t |-> 0]
Arr(items)     == [k |-> "array",     s |-> <<>>, vs |-> items, t |-> 0]
FragmentValue(n) == [k |-> "fragment", s |-> <<>>, vs |-> <<>>, t |-> n]

\* new TemplateResult(template, values)
TemplateResult(template, values) ==
  [k |-> "result", s |-> <<>>, vs |-> values, t |-> template]

\* values[i]: undefined beyond the end of the array.
At(values, i) == IF i \in 1..Len(values) THEN values[i] ELSE Undefined

\* The string a value is coerced to by `text += value` and by the
\* textContent setter (String(value)).
RECURSIVE toText(_)
JoinItems(items) ==
  LET RECURSIVE J(_)
      J(i) == IF i > Len(items) THEN <<>>
              ELSE (IF i > 1 THEN <<",">> ELSE <<>>)
                   \o (IF items[i].k = "undefined" THEN <<>> ELSE toText(items[i]))
                   \o J(i+1)
  IN J(1)
toText(v) ==
  CASE v.k = "string"    -> v.s
    [] v.k = "undefined" -> <<"undefined">>
    [] v.k = "function"  -> <<"()=>{}">>
    [] v.k = "array"     -> JoinItems(v.vs)
    [] v.k = "result"    -> <<"[object Object]">>
    [] v.k = "fragment"  -> <<"[object DocumentFragment]">>

(***************************************************************************)
(* The document tree.  A node is a record                                  *)
(*   type      "element", "text" or "fragment"                             *)
(*   name      the tag of an element                                       *)
(*   attrs     the attributes of an element, in order: <<[name, value]>>   *)
(*   data      the character data of a text node                           *)
(*   parent    parentNode,  children  childNodes                           *)
(*   ti        the __templateInstance expando (0 = undefined)              *)
(***************************************************************************)
ElementNode(name, attrs) ==
  [type |-> "element", name |-> name, attrs |-> attrs, data |-> <<>>,
   parent |-> 0, children |-> <<>>, ti |-> 0]
TextNode(data) ==
  [type |-> "text", name |-> "", attrs |-> <<>>, data |-> data,
   parent |-> 0, children |-> <<>>, ti |-> 0]
FragmentNode ==
  [type |-> "fragment", name |-> "", attrs |-> <<>>, data |-> <<>>,
   parent |-> 0, children |-> <<>>, ti |-> 0]

\* Let(v, F) is F(v): the body F names the value v once, however often it
\* uses it (a local const of the source).
Let(v, F(_)) == F(v)

IndexOf(seq, x) == CHOOSE i \in 1..Len(seq) : seq[i] = x
Without(seq, x) == SelectSeq(seq, LAMBDA y : y # x)

parentNode(nodes, n) == nodes[n].parent
firstChild(nodes, n) ==
  IF nodes[n].children = <<>> THEN 0 ELSE nodes[n].children[1]
nextSibling(nodes, n) ==
  IF nodes[n].parent = 0 THEN 0
  ELSE LET ch == nodes[nodes[n].parent].children
           i  == IndexOf(ch, n)
       IN  IF i < Len(ch) THEN ch[i+1] ELSE 0

\* parent.removeChild(n), for n a child of its parentNode.
removeChild(nodes, n) ==
  LET p == nodes[n].parent
  IN  [nodes EXCEPT ![p].children = Without(@, n), ![n].parent = 0]

\* Every node of `moved` gets the parent `parent`.
RECURSIVE SetParent(_, _, _)
SetParent(nodes, moved, parent) ==
  IF moved = <<>> THEN nodes
  ELSE SetParent([nodes EXCEPT ![Head(moved)].parent = parent], Tail(moved), parent)

\* parent.insertBefore(n, ref); ref = 0 (null) appends.  A DocumentFragment
\* is emptied into the parent; any other node is first removed from the
\* parent it has.
insertBefore(nodes, parent, n, ref) ==
  LET moved == IF nodes[n].type = "fragment" THEN nodes[n].children ELSE <<n>>
  IN  Let(IF nodes[n].type = "fragment"
          THEN [nodes EXCEPT ![n].children = <<>>]
          ELSE IF nodes[n].parent # 0 THEN removeChild(nodes, n) ELSE nodes,
          LAMBDA n1 :
            LET ch == n1[parent].children
                at == IF ref = 0 THEN Len(ch) + 1 ELSE IndexOf(ch, ref)
                newch == SubSeq(ch, 1, at-1) \o moved \o SubSeq(ch, at, Len(ch))
            IN  SetParent([n1 EXCEPT ![parent].children = newch], moved, parent))

appendChild(nodes, parent, n) == insertBefore(nodes, parent, n, 0)

\* TreeWalker.nextNode() with whatToShow = SHOW_ELEMENT | SHOW_TEXT over a
\* tree of elements and text nodes: the next node in document order under
\* root after cur, 0 (null) when there is none.  From a node that is no
\* longer under root the climb reaches a null parent and the walk ends.
RECURSIVE NextSkippingChildren(_, _, _)
NextSkippingChildren(nodes, root, n) ==
  IF n = 0 \/ n = root THEN 0
  ELSE IF nextSibling(nodes, n) # 0 THEN nextSibling(nodes, n)
  ELSE NextSkippingChildren(nodes, root, nodes[n].parent)

nextNode(nodes, root, cur) ==
  IF firstChild(nodes, cur) # 0 THEN firstChild(nodes, cur)
  ELSE NextSkippingChildren(nodes, root, cur)

\* The nodes under root in canonical document order (root excluded).
RECURSIVE WalkFrom(_, _, _)
WalkFrom(nodes, root, cur) ==
  Let(nextNode(nodes, root, cur),
      LAMBDA nx : IF nx = 0 THEN <<>> ELSE <<nx>> \o WalkFrom(nodes, root, nx))
Walk(nodes, root) == WalkFrom(nodes, root, root)

\* document.importNode(fragment, true): a deep copy in fresh nodes.  The
\* copy of a node keeps its kind, name, attributes and data; expando
\* properties are not copied.  The new fragment is node Len(nodes)+1.
RECURSIVE importChildren(_, _, _)
importChildren(nodes, kids, parent) ==
  IF kids = <<>> THEN nodes
  ELSE LET src == nodes[Head(kids)]
           id  == Len(nodes) + 1
           n1  == Append(nodes, [src EXCEPT !.parent = parent,
                                            !.children = <<>>, !.ti = 0])
           n2  == [n1 EXCEPT ![parent].children = Append(@, id)]
           n3  == importChildren(n2, src.children, id)
       IN  importChildren(n3, Tail(kids), parent)

\* An import that hands out the fragment's own nodes instead of copies.
importNode_move(nodes, frag) ==
  insertBefore(Append(nodes, FragmentNode), Len(nodes) + 1, frag, 0)

importNode(nodes, frag) ==
  importChildren(Append(nodes, FragmentNode), nodes[frag].children, Len(nodes) + 1)

(***************************************************************************)
(* The template literals of the client program.  A literal is one call     *)
(* site of the html tag; its strings array keeps its identity across       *)
(* calls, and the identity is the number of the literal.  Literals 2 and   *)
(* 3 have the same text.                                                   *)
(*   1  <div class="a ${}  b ${} c">${}</div>                              *)
(*   2  <b>${}</b>            3  <b>${}</b>                                *)
(*   4  <p id="${}" class="${}"></p>                                       *)
(*   5  <i>${}-${}</i>        6  <u>z</u>                                  *)
(*   7  <b>${}</b><i>${}</i>  8  <a href="${}"></a>                        *)
(***************************************************************************)

Literals == 1..8

stringsOf(l) ==
  CASE l = 1 -> << <<"<div class=\"", "a ">>, <<" b ">>, <<" c", "\">">>, <<"</div>">> >>
    [] l \in {2, 3} -> << <<"<b>">>, <<"</b>">> >>
    [] l = 4 -> << <<"<p id=\"">>, <<"\" class=\"">>, <<"\"></p>">> >>
    [] l = 5 -> << <<"<i>">>, <<"-">>, <<"</i>">> >>
    [] l = 6 -> << <<"<u>", "z", "</u>">> >>
    [] l = 7 -> << <<"<b>">>, <<"</b><i>">>, <<"</i>">> >>
    [] l = 8 -> << <<"<a href=\"">>, <<"\"></a>">> >>

\* The number of dynamic slots of a literal.
Slots(l) == Len(stringsOf(l)) - 1

\* The tree the HTML parser builds for an HTML string, as the list of its
\* nodes in document order; parent and children are positions in the list
\* and 0 is the fragment that holds the tree.
Child(node, parent, children) ==
  [node EXCEPT !.parent = parent, !.children = children]
Attr(name, value) == [name |-> name, value |-> value]

ParseHTML(html) ==
  CASE html = <<"<div class=\"", "a ", exprMarker, " b ", exprMarker, " c", "\">",
                exprMarker, "</div>">> ->
         << Child(ElementNode("div",
                    <<Attr("class", <<"a ", exprMarker, " b ", exprMarker, " c">>)>>),
                  0, <<2>>),
            Child(TextNode(<<exprMarker>>), 1, <<>>) >>
    [] html = <<"<b>", exprMarker, "</b>">> ->
         << Child(ElementNode("b", <<>>), 0, <<2>>),
            Child(TextNode(<<exprMarker>>), 1, <<>>) >>
    [] html = <<"<p id=\"", exprMarker, "\" class=\"", exprMarker, "\"></p>">> ->
         << Child(ElementNode("p", <<Attr("id", <<exprMarker>>),
                                     Attr("class", <<exprMarker>>)>>), 0, <<>>) >>
    [] html = <<"<i>", exprMarker, "-", exprMarker, "</i>">> ->
         << Child(ElementNode("i", <<>>), 0, <<2>>),
            Child(TextNode(<<exprMarker, "-", exprMarker>>), 1, <<>>) >>
    [] html = <<"<u>", "z", "</u>">> ->
         << Child(ElementNode("u", <<>>), 0, <<2>>),
            Child(TextNode(<<"z">>), 1, <<>>) >>
    [] html = <<"<b>", exprMarker, "</b><i>", exprMarker, "</i>">> ->
         << Child(ElementNode("b", <<>>), 0, <<2>>),
            Child(TextNode(<<exprMarker>>), 1, <<>>),
            Child(ElementNode("i", <<>>), 0, <<4>>),
            Child(TextNode(<<exprMarker>>), 3, <<>>) >>
    [] html = <<"<a href=\"", exprMarker, "\"></a>">> ->
         << Child(ElementNode("a", <<Attr("href", <<exprMarker>>)>>), 0, <<>>) >>

\* element = document.createElement('template'); element.innerHTML = html.
\* The template's content fragment becomes node Len(nodes)+1 and the parsed
\* nodes follow it.
RECURSIVE Relocate(_, _)
Relocate(ids, base) ==
  IF ids = <<>> THEN <<>>
  ELSE <<base + Head(ids)>> \o Relocate(Tail(ids), base)

RECURSIVE RelocateTree(_, _, _)
RelocateTree(tree, i, base) ==
  IF i > Len(tree) THEN <<>>
  ELSE << [tree[i] EXCEPT !.parent = base + @,
                          !.children = Relocate(@, base)] >>
       \o RelocateTree(tree, i + 1, base)

RECURSIVE TopLevel(_, _)
TopLevel(tree, i) ==
  IF i > Len(tree) THEN <<>>
  ELSE (IF tree[i].parent = 0 THEN <<i>> ELSE <<>>) \o TopLevel(tree, i + 1)

innerHTML(nodes, html) ==
  Let(ParseHTML(html),
      LAMBDA tree :
        nodes
        \o << [FragmentNode EXCEPT
                 !.children = Relocate(TopLevel(tree, 1), Len(nodes) + 1)] >>
        \o RelocateTree(tree, 1, Len(nodes) + 1))

(***************************************************************************)
(* Template: [strings, element, parts].  A Part is                         *)
(*   [type, index, name, strings], name and strings used by attribute      *)
(*   parts only.                                                           *)
(***************************************************************************)
AttributePart(name, index, strings) ==
  [type |-> "attribute", index |-> index, name |-> name, strings |-> strings]
NodePart(index) ==
  [type |-> "node", index |-> index, name |-> "", strings |-> <<>>]

\* Template._parse, lines 107-120: the attribute parts of one element.
RECURSIVE AttributeParts(_, _, _)
AttributeParts(attributes, i, index) ==
  IF i > Len(attributes) THEN <<>>
  ELSE LET strings == split(attributes[i].value)
       IN  (IF Len(strings) > 1
            THEN <<AttributePart(attributes[i].name, index, strings)>>
            ELSE <<>>)
           \o AttributeParts(attributes, i + 1, index)

\* Template._parse, lines 125-135: the loop that puts a literal text node
\* and a part node before `node` for each piece of its text.
RECURSIVE SplitText(_, _, _, _, _, _)
SplitText(nodes, node, strings, i, index, parts) ==
  IF i > Len(strings) THEN [nodes |-> nodes, index |-> index, parts |-> parts]
  ELSE Let(insertBefore(Append(nodes, TextNode(strings[i])),
                        nodes[node].parent, Len(nodes) + 1, node),
           LAMBDA n1 :
             IF i < Len(strings)
             THEN SplitText(insertBefore(Append(n1, TextNode(<<>>)),
                                         n1[node].parent, Len(n1) + 1, node),
                            node, strings, i + 1, index + 2,
                            Append(parts, NodePart(index + 1)))
             ELSE SplitText(n1, node, strings, i + 1, index + 1, parts))

\* Template._parse, lines 101-140: the walk.  `cur` is walker.currentNode.
RECURSIVE ParseWalk(_, _, _, _, _)
ParseWalk(nodes, root, cur, index0, parts) ==
  Let(nextNode(nodes, root, cur),
      LAMBDA node :
        LET index == index0 + 1
        IN  IF node = 0 THEN [nodes |-> nodes, parts |-> parts]
            ELSE IF nodes[node].type = "element"
            THEN ParseWalk(nodes, root, node, index,
                           parts \o AttributeParts(nodes[node].attrs, 1, index))
            ELSE IF Len(split(nodes[node].data)) > 1
            THEN Let(SplitText(nodes, node, split(nodes[node].data), 1, index, parts),
                     LAMBDA r : ParseWalk(removeChild(r.nodes, node), root, node,
                                          r.index - 1, r.parts))
            ELSE ParseWalk(nodes, root, node, index, parts))

\* Template._parse
_parse(nodes, strings) ==
  LET element == Len(nodes) + 1
  IN  Let(ParseWalk(innerHTML(nodes, _getTemplateHtml(stringsOf(strings))),
                    element, element, -1, <<>>),
          LAMBDA r :
            [nodes |-> r.nodes,
             template |-> [strings |-> strings, element |-> element,
                           parts |-> r.parts]])

(***************************************************************************)
(* TemplateInstance: [template, parts, startNode, endNode], parts the      *)
(* list of [part, node] pairs (_parts).                                    *)
(*                                                                         *)
(* The operations run on a record s = [nodes, insts, log, exc]: the two    *)
(* heaps they change, the list of the effects of the running operation,    *)
(* and whether an exception is propagating (nothing runs after a throw).   *)
(***************************************************************************)
Event(op, node, inst, name, text, values, ns) ==
  [op |-> op, node |-> node, inst |-> inst, name |-> name, text |-> text,
   values |-> values, ns |-> ns]
Log(s, e) == [s EXCEPT !.log = Append(@, e)]
Throw(s)  == [s EXCEPT !.exc = TRUE]

\* new TemplateInstance(template); the new object is Len(s.insts).
NewTemplateInstance(s, template) ==
  Log([s EXCEPT !.insts = Append(@, [template |-> template, parts |-> <<>>,
                                     startNode |-> 0, endNode |-> 0])],
      Event("new TemplateInstance", 0, Len(s.insts) + 1, "", <<>>, <<>>, <<>>))

\* new Text(data); the new node is Len(s.nodes).
NewText(s, data) == [s EXCEPT !.nodes = Append(@, TextNode(data))]

\* element.setAttribute(name, text)
setAttribute(s, node, name, text) ==
  LET attrs == s.nodes[node].attrs
      newattrs ==
        IF \E i \in 1..Len(attrs) : attrs[i].name = name
        THEN [attrs EXCEPT ![CHOOSE i \in 1..Len(attrs) : attrs[i].name = name]
                             = Attr(name, text)]
        ELSE Append(attrs, Attr(name, text))
  IN  Log([s EXCEPT !.nodes[node].attrs = newattrs],
          Event("setAttribute", node, 0, name, text, <<>>, <<>>))

\* text.textContent = value: undefined is the empty string.
setTextContent(s, node, value) ==
  LET text == IF value.k = "undefined" THEN <<>> ELSE toText(value)
  IN  Log([s EXCEPT !.nodes[node].data = text],
          Event("textContent", node, 0, "", text, <<>>, <<>>))

\* An insertion that puts n before node instead of after it.
insertAfter_before(s, n, node) ==
  IF s.nodes[node].parent = 0 THEN Throw(s)
  ELSE Log([s EXCEPT !.nodes = insertBefore(@, s.nodes[node].parent, n, node)],
           Event("insertBefore", node, 0, "", <<>>, <<>>,
                 IF s.nodes[n].type = "fragment" THEN s.nodes[n].children ELSE <<n>>))

\* node.parentNode!.insertBefore(n, node.nextSibling): a TypeError when
\* node has no parent.
insertAfter(s, n, node) ==
  IF s.nodes[node].parent = 0 THEN Throw(s)
  ELSE Log([s EXCEPT !.nodes = insertBefore(@, s.nodes[node].parent, n,
                                            nextSibling(s.nodes, node))],
           Event("insertBefore", node, 0, "", <<>>, <<>>,
                 IF s.nodes[n].type = "fragment" THEN s.nodes[n].children ELSE <<n>>))

\* TemplateInstance._clone, lines 191-198: pair each Part with the node at
\* its position.  partIndex counts from 1 here.
RECURSIVE BindWalk(_, _, _, _, _, _, _)
BindWalk(nodes, fragment, cur, index0, partIndex, parts, bound) ==
  Let(nextNode(nodes, fragment, cur),
      LAMBDA node :
        LET index == index0 + 1
        IN  IF node = 0 \/ ~(partIndex <= Len(parts)) THEN bound
            ELSE IF index = parts[partIndex].index
            THEN BindWalk(nodes, fragment, node, index, partIndex + 1, parts,
                          Append(bound, [part |-> parts[partIndex], node |-> node]))
            ELSE BindWalk(nodes, fragment, node, index, partIndex, parts, bound))

\* TemplateInstance._clone
_clone(s, tmpls, inst) ==
  LET template == tmpls[s.insts[inst].template]
      fragment == Len(s.nodes) + 1
  IN  Let(importNode(s.nodes, template.element),
          LAMBDA n1 :
            [s |-> [s EXCEPT
                      !.nodes = n1,
                      !.insts[inst].parts =
                         IF Len(template.parts) > 0
                         THEN BindWalk(n1, fragment, fragment, -1, 1,
                                       template.parts, s.insts[inst].parts)
                         ELSE s.insts[inst].parts],
             fragment |-> fragment])

\* A fragment without the start and end sentinels.
_getFragment_bare(s, tmpls, inst) == _clone(s, tmpls, inst)

\* TemplateInstance._getFragment
_getFragment(s, tmpls, inst) ==
  Let(_clone(s, tmpls, inst),
      LAMBDA c :
        Let(insertBefore(Append(c.s.nodes, TextNode(<<>>)), c.fragment,
                         Len(c.s.nodes) + 1, firstChild(c.s.nodes, c.fragment)),
            LAMBDA n1 :
              [s |-> [c.s EXCEPT
                        !.nodes = appendChild(Append(n1, TextNode(<<>>)),
                                              c.fragment, Len(n1) + 1),
                        !.insts[inst].startNode = Len(c.s.nodes) + 1,
                        !.insts[inst].endNode = Len(n1) + 1],
               fragment |-> c.fragment]))

\* A getValue that calls the value once and takes what it returns.
getValue_once(value) ==
  IF value.k = "function"
  THEN IF value.vs = <<>>
       THEN [value |-> Undefined, error |-> TRUE, thrown |-> FALSE]
       ELSE [value |-> value.vs[1], error |-> FALSE, thrown |-> FALSE]
  ELSE [value |-> value, error |-> FALSE, thrown |-> FALSE]

\* TemplateInstance.getValue: call while the value is a function.  `error`
\* is the console.error of the catch clause; `thrown` an exception that
\* leaves getValue (there is none).
RECURSIVE getValue(_)
getValue(value) ==
  IF value.k = "function"
  THEN IF value.vs = <<>>
       THEN [value |-> Undefined, error |-> TRUE, thrown |-> FALSE]
       ELSE getValue(value.vs[1])
  ELSE [value |-> value, error |-> FALSE, thrown |-> FALSE]

\* A loop that does not stop at the end sentinel.
RECURSIVE CleanupLoop_toEnd(_, _, _)
CleanupLoop_toEnd(s, cleanupNode, endNode) ==
  IF cleanupNode = 0 THEN s
  ELSE IF s.nodes[cleanupNode].parent = 0 THEN Throw(s)
  ELSE CleanupLoop_toEnd(
         Log([s EXCEPT !.nodes = removeChild(@, cleanupNode)],
             Event("removeChild", cleanupNode, 0, "", <<>>, <<>>, <<>>)),
         nextSibling(s.nodes, cleanupNode), endNode)

\* TemplateInstance._cleanup, lines 278-285.
RECURSIVE CleanupLoop(_, _, _)
CleanupLoop(s, cleanupNode, endNode) ==
  IF cleanupNode = 0 THEN s
  ELSE LET n == cleanupNode
           next == nextSibling(s.nodes, cleanupNode)
       IN  IF s.nodes[n].parent = 0 THEN Throw(s)
           ELSE Let(Log([s EXCEPT !.nodes = removeChild(@, n)],
                        Event("removeChild", n, 0, "", <<>>, <<>>, <<>>)),
                    LAMBDA s1 :
                      IF next = endNode THEN s1 ELSE CleanupLoop(s1, next, endNode))

\* A cleanup that leaves the slot's record as it is.
_cleanup_keep(s, node) ==
  CleanupLoop(s, s.insts[s.nodes[node].ti].startNode, s.insts[s.nodes[node].ti].endNode)

\* TemplateInstance._cleanup
_cleanup(s, node) ==
  LET instance == s.insts[s.nodes[node].ti]
  IN  Let(CleanupLoop(s, instance.startNode, instance.endNode),
          LAMBDA s1 : IF s1.exc THEN s1 ELSE [s1 EXCEPT !.nodes[node].ti = 0])

\* An attribute text that leaves out the last static segment.
RECURSIVE AttributeText_short(_, _, _, _)
AttributeText_short(strings, i, values, valueIndex) ==
  IF i >= Len(strings) THEN <<>>
  ELSE strings[i] \o toText(At(values, valueIndex))
       \o AttributeText_short(strings, i + 1, values, valueIndex + 1)

\* TemplateInstance.update, lines 210-216: the text of an attribute.
RECURSIVE AttributeText(_, _, _, _)
AttributeText(strings, i, values, valueIndex) ==
  IF i > Len(strings) THEN <<>>
  ELSE strings[i]
       \o (IF i < Len(strings)
            THEN toText(At(values, valueIndex))
                 \o AttributeText(strings, i + 1, values, valueIndex + 1)
            ELSE <<>>)

RECURSIVE update(_, _, _, _), _renderValue(_, _, _, _)

\* TemplateInstance.update, lines 224-229: one marker per item.
RECURSIVE RenderItems(_, _, _, _, _)
RenderItems(s, tmpls, items, i, fragment) ==
  IF s.exc \/ i > Len(items) THEN s
  ELSE LET marker == Len(s.nodes) + 1
       IN  RenderItems(_renderValue([s EXCEPT
                                       !.nodes = appendChild(Append(@, TextNode(<<>>)),
                                                             fragment, marker)],
                                    tmpls, items[i], marker),
                       tmpls, items, i + 1, fragment)

\* TemplateInstance.update, the body of the loop for one {part, node}.
UpdatePart(s, tmpls, part, node, values, valueIndex) ==
  IF part.type = "attribute"
  THEN setAttribute(s, node, part.name,
                    AttributeText(part.strings, 1, values, valueIndex))
  ELSE Let(getValue(At(values, valueIndex)),
           LAMBDA r :
             LET s0 == IF r.error
                       THEN Log(s, Event("console.error", node, 0, "", <<>>, <<>>, <<>>))
                       ELSE s
                 value == r.value
                 fragment == Len(s.nodes) + 1
             IN  IF r.thrown THEN Throw(s0)
                 ELSE IF value.k = "array"
                 THEN Let(RenderItems([s0 EXCEPT !.nodes = Append(@, FragmentNode)],
                                      tmpls, value.vs, 1, fragment),
                          LAMBDA s2 :
                            IF s2.exc THEN s2
                            ELSE _renderValue(s2, tmpls, FragmentValue(fragment), node))
                 ELSE _renderValue(s0, tmpls, value, node))

\* The number of values a Part takes.
Consumes(part) == IF part.type = "attribute" THEN Len(part.strings) - 1 ELSE 1

RECURSIVE UpdateLoop(_, _, _, _, _, _)
UpdateLoop(s, tmpls, parts, j, values, valueIndex) ==
  IF s.exc \/ j > Len(parts) THEN s
  ELSE UpdateLoop(UpdatePart(s, tmpls, parts[j].part, parts[j].node, values, valueIndex),
                  tmpls, parts, j + 1, values, valueIndex + Consumes(parts[j].part))

\* TemplateInstance.update
update(s, tmpls, inst, values) ==
  UpdateLoop(Log(s, Event("update", 0, inst, "", <<>>, values, <<>>)),
             tmpls, s.insts[inst].parts, 1, values, 1)

\* TemplateInstance._renderValue, line 252: the slot holds an instance that
\* the value cannot reuse.
NeedsCleanup(s, templateInstance, value) ==
  templateInstance # 0
  /\ (~(value.k = "result") \/ s.insts[templateInstance].template # value.t)

\* A reuse test that never finds the Template stamped.
NeedsNewInstance_always(s, templateInstance, value) == TRUE

\* TemplateInstance._renderValue, line 259: the TemplateResult has not been
\* stamped at this location.
NeedsNewInstance(s, templateInstance, value) ==
  templateInstance = 0 \/ value.t # s.insts[templateInstance].template

\* TemplateInstance._renderValue
_renderValue(s, tmpls, value, node) ==
  LET templateInstance == s.nodes[node].ti
      new == Len(s.insts) + 1
  IN  Let(IF NeedsCleanup(s, templateInstance, value) THEN _cleanup(s, node) ELSE s,
          LAMBDA s1 :
            IF s1.exc THEN s1
            ELSE IF value.k = "fragment" THEN insertAfter(s1, value.t, node)
            ELSE IF value.k = "result"
            THEN IF NeedsNewInstance(s1, templateInstance, value)
                 THEN Let(NewTemplateInstance(setTextContent(s1, node, Str(<<>>)),
                                              value.t),
                      LAMBDA s2 :
                      Let(_getFragment([s2 EXCEPT !.nodes[node].ti = new], tmpls, new),
                      LAMBDA f :
                      Let(insertAfter(f.s, f.fragment, node),
                      LAMBDA s4 :
                        IF s4.exc THEN s4 ELSE update(s4, tmpls, new, value.vs))))
                 ELSE update(s1, tmpls, templateInstance, value.vs)
            ELSE setTextContent(s1, node, value))

\* TemplateInstance.appendTo
appendTo(s, tmpls, inst, container, values) ==
  Let(_clone(s, tmpls, inst),
      LAMBDA c :
        Let(update(c.s, tmpls, inst, values),
            LAMBDA s1 :
              IF s1.exc THEN s1
              ELSE Log([s1 EXCEPT !.nodes = appendChild(@, container, c.fragment)],
                       Event("appendChild", container, inst, "", <<>>, <<>>,
                             s1.nodes[c.fragment].children))))

(***************************************************************************)
(* The state of the program.                                               *)
(*   nodes, insts, tmpls   the heaps of nodes, TemplateInstances, Templates*)
(*   templates             the Map from strings array to Template          *)
(*   templateInstances     the WeakMap from container to TemplateInstance  *)
(*   results               the TemplateResults the client holds, each with *)
(*                         the literal whose html call returned it         *)
(*   log, exc              the effects of the last operation and whether   *)
(*                         it threw                                        *)
(*   last                  the values last passed to each container's      *)
(*                         instance                                        *)
(*   renders               the number of renderTo calls so far             *)
(* The containers are nodes 1..NumContainers.                              *)
(***************************************************************************)
VARIABLES nodes, insts, tmpls, templates, templateInstances, results,
          log, exc, last, renders

vars == <<nodes, insts, tmpls, templates, templateInstances, results,
          log, exc, last, renders>>

RECURSIVE ContainerNodes(_)
ContainerNodes(n) ==
  IF n = 0 THEN <<>>
  ELSE Append(ContainerNodes(n - 1), ElementNode("container", <<>>))

Init ==
  /\ nodes = ContainerNodes(NumContainers)
  /\ insts = <<>>
  /\ tmpls = <<>>
  /\ templates = [l \in Literals |-> 0]
  /\ templateInstances = [c \in Containers |-> 0]
  /\ results = {}
  /\ log = <<>>
  /\ exc = FALSE
  /\ last = [c \in Containers |-> <<>>]
  /\ renders = 0

\* A lookup by the text of the strings array instead of its identity.
MapGet_byText(map, strings) ==
  IF \E l \in Literals : stringsOf(l) = stringsOf(strings) /\ map[l] # 0
  THEN map[CHOOSE l \in Literals : stringsOf(l) = stringsOf(strings) /\ map[l] # 0]
  ELSE 0

\* templates.get(strings): a Map looks its key up by identity.
MapGet(map, strings) == map[strings]

\* A lookup that never finds the container.
WeakMapGet_absent(map, container) == 0

\* templateInstances.get(container)
WeakMapGet(map, container) == map[container]

\* html(strings, ...values)
html(strings, values) ==
  LET cached == MapGet(templates, strings)
      template == IF cached = 0 THEN Len(tmpls) + 1 ELSE cached
  IN  /\ IF cached = 0
         THEN Let(_parse(nodes, strings),
                  LAMBDA parsed : /\ nodes' = parsed.nodes
                                  /\ tmpls' = Append(tmpls, parsed.template))
         ELSE UNCHANGED <<nodes, tmpls>>
      /\ templates' = IF cached = 0
                      THEN [templates EXCEPT ![strings] = template]
                      ELSE templates
      /\ results' = results \cup {[strings |-> strings,
                                   result |-> TemplateResult(template, values)]}
      /\ log' = IF cached = 0
                THEN <<Event("new Template", 0, template, "", <<>>, <<>>, <<>>)>>
                ELSE <<>>
      /\ exc' = FALSE
      /\ UNCHANGED <<insts, templateInstances, last, renders>>

\* TemplateResult.renderTo(container)
renderTo(result, container) ==
  LET s0 == [nodes |-> nodes, insts |-> insts, log |-> <<>>, exc |-> FALSE]
      instance == WeakMapGet(templateInstances, container)
  IN  /\ Let(IF instance = 0
             THEN appendTo(NewTemplateInstance(s0, result.t), tmpls,
                           Len(insts) + 1, container, result.vs)
             ELSE update(s0, tmpls, instance, result.vs),
             LAMBDA s1 : /\ nodes' = s1.nodes
                         /\ insts' = s1.insts
                         /\ log' = s1.log
                         /\ exc' = s1.exc)
      /\ templateInstances' =
            IF instance = 0
            THEN [templateInstances EXCEPT ![container] = Len(insts) + 1]
            ELSE templateInstances
      /\ last' = [last EXCEPT ![container] = result.vs]
      /\ renders' = renders + 1
      /\ UNCHANGED <<tmpls, templates, results>>

(***************************************************************************)
(* The client programs: which literals are evaluated and which values go   *)
(* into each slot.                                                         *)
(***************************************************************************)
x == Str(<<"x">>)
y == Str(<<"y">>)

\* The sequences v of length n with v[i] in D(i).
Tuples(n, D(_)) ==
  {v \in [1..n -> UNION {D(i) : i \in 1..n}] : \A i \in 1..n : v[i] \in D(i)}

ResultsOf(ls) == {r.result : r \in {q \in results : q.strings \in ls}}

\* Plain strings in attributes and text, one or two instances per Template.
PlainLiterals == {1, 2, 3, 4}
PlainValues(l, i) ==
  CASE l = 1 -> IF i = 1 THEN {x, y} ELSE IF i = 2 THEN {y} ELSE {x}
    [] l = 2 -> {x, y}
    [] l = 3 -> {x}
    [] l = 4 -> IF i = 1 THEN {x, y} ELSE {y}

Next ==
  \/ /\ Cardinality(results) < MaxHtml
     /\ \E strings \in PlainLiterals :
          \E values \in Tuples(Slots(strings), LAMBDA i : PlainValues(strings, i)) :
             html(strings, values)
  \/ /\ renders < MaxRender
     /\ \E r \in results, container \in Containers :
          renderTo(r.result, container)

Spec == Init /\ [][Next]_vars

\* Nested TemplateResults in the slot of literal 2, in one container.
NestedLiterals == {2, 3, 6}
NestedValues(l, i) ==
  CASE l = 2 -> {x} \cup ResultsOf({3, 6})
    [] l = 3 -> {x, y}
    [] l = 6 -> {}

NextNested ==
  \/ /\ Cardinality(results) < MaxNestedHtml
     /\ \E strings \in NestedLiterals :
          \E values \in Tuples(Slots(strings), LAMBDA i : NestedValues(strings, i)) :
             html(strings, values)
  \/ /\ renders < MaxNestedRender
     /\ \E r \in results : renderTo(r.result, 1)

SpecNested == Init /\ [][NextNested]_vars

\* Every kind of value in the two text slots of literal 5, in one container.
ValuesLiterals == {5, 6}
ValuesValues(l, i) ==
  CASE l = 5 -> IF i = 1
                THEN {x, Fn(Fn(Str(<<"v">>))), Fn(FnThrows),
                      Arr(<<Str(<<"a">>), Str(<<"b">>), Str(<<"c">>)>>),
                      Arr(<<Str(<<"a">>)>>)}
                     \cup ResultsOf({6})
                ELSE {y, FnThrows, Fn(Str(<<"w">>)), Arr(<<Str(<<"b">>)>>)}
    [] l = 6 -> {}

NextValues ==
  \/ /\ Cardinality(results) < MaxValuesHtml
     /\ \E strings \in ValuesLiterals :
          \E values \in Tuples(Slots(strings), LAMBDA i : ValuesValues(strings, i)) :
             html(strings, values)
  \/ /\ renders < MaxValuesRender
     /\ \E r \in results : renderTo(r.result, 1)

SpecValues == Init /\ [][NextValues]_vars

\* Slots in two elements after one another, and callables in an attribute,
\* in two containers.
SlotsLiterals == {7, 8}
SlotsValues(l, i) ==
  CASE l = 7 -> IF i = 1 THEN {x, y} ELSE {y}
    [] l = 8 -> {x, Fn(Str(<<"v">>))}

NextSlots ==
  \/ /\ Cardinality(results) < MaxSlotsHtml
     /\ \E strings \in SlotsLiterals :
          \E values \in Tuples(Slots(strings), LAMBDA i : SlotsValues(strings, i)) :
             html(strings, values)
  \/ /\ renders < MaxSlotsRender
     /\ \E r \in results, container \in Containers :
          renderTo(r.result, container)

SpecSlots == Init /\ [][NextSlots]_vars

(***************************************************************************)
(* Properties.                                                             *)
(***************************************************************************)
\* A step is a renderTo call on container c.
Rendered(c) ==
  /\ renders' = renders + 1
  /\ \E k \in 1..Len(log') :
       /\ log'[k].op = "update" /\ log'[k].inst = templateInstances'[c]
       /\ \A m \in 1..(k-1) : log'[m].op # "update"

\* The position in the values of the first value that pair j of a
\* (Part, node) list takes.
RECURSIVE ValueIndexOf(_, _)
ValueIndexOf(pairs, j) ==
  IF j = 1 THEN 1
  ELSE ValueIndexOf(pairs, j - 1)
       + (IF pairs[j-1].part.type = "attribute"
          THEN Len(pairs[j-1].part.strings) - 1 ELSE 1)

HasEvent(l, ops) == \E k \in 1..Len(l) : l[k].op \in ops

\* C1 (nested-template reuse): when a renderTo step gives a node slot that
\* holds a nested instance a TemplateResult of that instance's Template,
\* the slot keeps the same instance, no instance is created, no node is
\* inserted or removed (the anchor's siblings are the same nodes in the
\* same order), and the instance's update() is called with the result's
\* values.
C1_NestedReuse ==
  [][ \A c \in Containers :
        (Rendered(c) /\ templateInstances[c] # 0) =>
          LET pairs == insts[templateInstances[c]].parts
          IN  \A j \in 1..Len(pairs) :
                LET n == pairs[j].node
                    v == At(last'[c], ValueIndexOf(pairs, j))
                    i == nodes[n].ti
                IN  ( /\ pairs[j].part.type = "node"
                      /\ i # 0
                      /\ v.k = "result"
                      /\ insts[i].template = v.t )
                    => /\ nodes'[n].ti = i
                       /\ Len(insts') = Len(insts)
                       /\ nodes'[nodes[n].parent].children
                            = nodes[nodes[n].parent].children
                       /\ ~HasEvent(log', {"insertBefore", "removeChild",
                                           "new TemplateInstance"})
                       /\ \E k \in 1..Len(log') :
                            log'[k] = Event("update", 0, i, "", <<>>, v.vs, <<>>)
    ]_vars

\* A nested instance was updated in place with the value y by the last
\* renderTo, after at least one earlier render.
C1_Witness ==
  /\ renders >= 2
  /\ ~HasEvent(log, {"new TemplateInstance", "insertBefore", "removeChild"})
  /\ \E k \in 1..Len(log) :
       /\ log[k].op = "update"
       /\ log[k].inst # templateInstances[1]
       /\ log[k].values = <<y>>
  /\ \E n \in 1..Len(nodes) : nodes[n].ti # 0

\* C2 (inclusive range removal): no sentinel of a discarded nested instance
\* remains in a parent: once no slot records the instance, its start and
\* end sentinels are detached.
Recorded(i) == \E n \in 1..Len(nodes) : nodes[n].ti = i
C2_RangeRemoved ==
  \A i \in 1..Len(insts) :
    (insts[i].startNode # 0 /\ ~Recorded(i)) =>
       /\ nodes[insts[i].startNode].parent = 0
       /\ nodes[insts[i].endNode].parent = 0

\* The nodes under root in document order, each with its text and its
\* attributes.
ToSet(seq) == {seq[k] : k \in 1..Len(seq)}
RECURSIVE Shape(_, _)
Shape(ns, ids) ==
  IF ids = <<>> THEN <<>>
  ELSE << [node |-> Head(ids), data |-> ns[Head(ids)].data,
           attrs |-> ns[Head(ids)].attrs] >> \o Shape(ns, Tail(ids))
Subtree(ns, root) == Shape(ns, Walk(ns, root))

\* C3 (update idempotence): in every state, calling update() on a
\* container's instance once more with the values it was last given leaves
\* the container's subtree as it is: the same nodes in the same order with
\* the same text and the same attributes.
C3_UpdateIdempotent ==
  \A c \in Containers :
    templateInstances[c] # 0 =>
      Subtree(update([nodes |-> nodes, insts |-> insts, log |-> <<>>, exc |-> FALSE],
                     tmpls, templateInstances[c], last[c]).nodes, c)
        = Subtree(nodes, c)

\* The text s0 + v0 + s1 + ... + sk of segments and the values from
\* position vi on.
RECURSIVE Joined(_, _, _)
Joined(strings, values, vi) ==
  IF Len(strings) = 1 THEN strings[1]
  ELSE strings[1] \o toText(At(values, vi)) \o Joined(Tail(strings), values, vi + 1)

\* The value of the attribute `name` of node n.
AttrValue(ns, n, name) ==
  ns[n].attrs[CHOOSE a \in 1..Len(ns[n].attrs) : ns[n].attrs[a].name = name].value

\* The text a plain value shows as in a node slot.
SlotText(v) == IF v.k = "undefined" THEN <<>> ELSE v.s

\* The bound nodes `pairs` of container c's instance lie under c and show
\* the values last passed to that instance, in the heap ns.
OwnValues(ns, pairs, values, c) ==
  \A j \in 1..Len(pairs) :
    LET part == pairs[j].part
        n == pairs[j].node
        vi == ValueIndexOf(pairs, j)
    IN  /\ n \in ToSet(Walk(ns, c))
        /\ IF part.type = "attribute"
           THEN AttrValue(ns, n, part.name) = Joined(part.strings, values, vi)
           ELSE ns[n].data = SlotText(At(values, vi))

\* The fragment of Template t: its content node and the nodes under it.
TemplateNodes(t) == {tmpls[t].element} \cup ToSet(Walk(nodes, tmpls[t].element))

\* C4 (positional stability and independence): no step changes a compiled
\* Template's record (its Part list) or any node of its fragment; a
\* renderTo on one container changes no node under another container and
\* not the other container's instance; and after every step each
\* container's bound nodes lie in its own subtree and show the values last
\* passed to its own instance.
C4_Independence ==
  [][ /\ \A t \in 1..Len(tmpls) :
           /\ tmpls'[t] = tmpls[t]
           /\ \A n \in TemplateNodes(t) : nodes'[n] = nodes[n]
      /\ \A c \in Containers, c2 \in Containers :
           (Rendered(c) /\ c2 # c) =>
              /\ \A n \in {c2} \cup ToSet(Walk(nodes, c2)) : nodes'[n] = nodes[n]
              /\ templateInstances'[c2] = templateInstances[c2]
              /\ templateInstances[c2] # 0 =>
                   insts'[templateInstances[c2]] = insts[templateInstances[c2]]
      /\ \A c \in Containers :
           templateInstances'[c] # 0 =>
              OwnValues(nodes', insts'[templateInstances'[c]].parts, last'[c], c)
    ]_vars

\* Two containers hold instances of one Template that show different
\* values, the last step being an update of an instance made earlier.
C4_Witness ==
  /\ templateInstances[1] # 0 /\ templateInstances[2] # 0
  /\ insts[templateInstances[1]].template = insts[templateInstances[2]].template
  /\ Len(insts[templateInstances[1]].parts) > 0
  /\ last[1] # last[2]
  /\ Subtree(nodes, 1) # <<>> /\ Subtree(nodes, 2) # <<>>
  /\ log # <<>> /\ log[1].op = "update"

\* The positions in l of the setAttribute events for attribute `name` of
\* node n.
AttributeWrites(l, n, name) ==
  {k \in 1..Len(l) : l[k].op = "setAttribute" /\ l[k].node = n /\ l[k].name = name}

\* C5 (attribute rebuild): on every renderTo step, each bound attribute
\* Part of the container's instance is written by exactly one setAttribute
\* call, whose text is s0 + v0 + s1 + ... + sk for the Part's segments and
\* the next values in order, and the attribute then has that text whatever
\* it was before; for the segments "a ", " b ", " c" and the values x, y the
\* text is "a x b y c".
C5_AttributeRebuild ==
  [][ \A c \in Containers :
        Rendered(c) =>
          LET pairs == insts'[templateInstances'[c]].parts
          IN  \A j \in 1..Len(pairs) :
                LET part == pairs[j].part
                    n == pairs[j].node
                    vi == ValueIndexOf(pairs, j)
                    writes == AttributeWrites(log', n, part.name)
                IN  part.type = "attribute" =>
                      /\ Cardinality(writes) = 1
                      /\ \A k \in writes :
                           /\ log'[k].text = Joined(part.strings, last'[c], vi)
                           /\ ( /\ part.strings = << <<"a ">>, <<" b ">>, <<" c">> >>
                                /\ At(last'[c], vi) = x
                                /\ At(last'[c], vi + 1) = y )
                              => log'[k].text = <<"a ", "x", " b ", "y", " c">>
                      /\ AttrValue(nodes', n, part.name)
                           = Joined(part.strings, last'[c], vi)
    ]_vars

\* An update of an instance made by an earlier render wrote "a x b y c".
C5_Witness ==
  /\ renders >= 2
  /\ ~HasEvent(log, {"new TemplateInstance"})
  /\ \E k \in 1..Len(log) :
       /\ log[k].op = "setAttribute"
       /\ log[k].text = <<"a ", "x", " b ", "y", " c">>
       /\ AttrValue(nodes, log[k].node, "class") = <<"a ", "x", " b ", "y", " c">>

\* The elements of a in their order are among the elements of b in the
\* same order (the elements of each are distinct).
IsSubsequence(a, b) == SelectSeq(b, LAMBDA z : z \in ToSet(a)) = a

\* The part of seq after (before) its element n.
After(seq, n) == SubSeq(seq, IndexOf(seq, n) + 1, Len(seq))
Before(seq, n) == SubSeq(seq, 1, IndexOf(seq, n) - 1)

\* C6 (iterable expansion): on a renderTo step that gives a node slot
\* holding no nested instance an array of n strings, the n siblings right
\* after the slot's anchor are new text nodes with the items' texts in
\* iteration order; when the instance existed before the step the anchor
\* keeps its parent, the nodes that preceded it and are still in the
\* parent precede it in their order, and the nodes that followed it follow
\* the last item in their order; on the
\* first render the node after the last item is the copy of the node after
\* the slot in the Template.
C6_IterableExpansion ==
  [][ Rendered(1) =>
        LET inst == insts'[templateInstances'[1]]
            pairs == inst.parts
        IN  \A j \in 1..Len(pairs) :
              LET n == pairs[j].node
                  v == At(last'[1], ValueIndexOf(pairs, j))
                  parent == nodes'[n].parent
                  ch == nodes'[parent].children
                  len == Len(v.vs)
                  items == SubSeq(After(ch, n), 1, len)
                  rest == SubSeq(After(ch, n), len + 1, Len(After(ch, n)))
              IN  ( /\ pairs[j].part.type = "node"
                    /\ v.k = "array"
                    /\ \A m \in 1..len : v.vs[m].k = "string"
                    /\ (n <= Len(nodes) => nodes[n].ti = 0) )
                  => /\ parent # 0
                     /\ Len(items) = len
                     /\ \A m \in 1..len :
                          /\ items[m] > Len(nodes)
                          /\ nodes'[items[m]].type = "text"
                          /\ nodes'[items[m]].data = v.vs[m].s
                     /\ IF n <= Len(nodes)
                        THEN /\ nodes[n].parent = parent
                             /\ IsSubsequence(
                                  SelectSeq(Before(nodes[parent].children, n),
                                            LAMBDA z : z \in ToSet(ch)),
                                  Before(ch, n))
                             /\ IsSubsequence(After(nodes[parent].children, n), rest)
                        ELSE /\ rest # <<>>
                             /\ nodes'[rest[1]].data =
                                  nodes'[nextSibling(nodes',
                                           Walk(nodes', tmpls[inst.template].element)
                                             [pairs[j].part.index + 1])].data
    ]_vars

\* The texts of the nodes ids.
RECURSIVE Texts(_, _)
Texts(ns, ids) ==
  IF ids = <<>> THEN <<>> ELSE <<ns[Head(ids)].data>> \o Texts(ns, Tail(ids))

\* An update of an instance made earlier gave the first slot of
\* <i>${}-${}</i> the array a, b, c: the anchor is followed by exactly the
\* three items and then the literal "-".
C6_Witness ==
  /\ renders >= 2
  /\ ~HasEvent(log, {"new TemplateInstance"})
  /\ Len(last[1]) = 2
  /\ last[1][1] = Arr(<<Str(<<"a">>), Str(<<"b">>), Str(<<"c">>)>>)
  /\ last[1][2] = y
  /\ templateInstances[1] # 0
  /\ Len(insts[templateInstances[1]].parts) = 2
  /\ LET n == insts[templateInstances[1]].parts[1].node
     IN  Texts(nodes, nodes[nodes[n].parent].children)
           = << <<>>, <<>>, <<"a">>, <<"b">>, <<"c">>, <<"-">>, <<"y">>, <<>> >>

\* A chain of callables: whether a call in it throws, and the value at its
\* end when none does.
RECURSIVE Throws(_)
Throws(v) == v.k = "function" /\ (v.vs = <<>> \/ Throws(v.vs[1]))
RECURSIVE Final(_)
Final(v) == IF v.k = "function" /\ v.vs # <<>> THEN Final(v.vs[1]) ELSE v

\* The positions in l of the events of kind op on node n.
EventsOn(l, n, ops) == {k \in 1..Len(l) : l[k].op \in ops /\ l[k].node = n}

\* C7 (deferred values): no renderTo step ends with an exception; a node
\* slot given a chain of callables that ends in a string shows that string;
\* a slot given a chain in which a call throws has the failure reported for
\* its node, its anchor text is empty, and every later (Part, node) pair is
\* processed after the report with its own value: a string is shown, a
\* chain ending in a string shows that string, an array is inserted.
C7_DeferredValues ==
  [][ Rendered(1) =>
        /\ exc' = FALSE
        /\ LET pairs == insts'[templateInstances'[1]].parts
           IN  \A j \in 1..Len(pairs) :
                 LET n == pairs[j].node
                     v == At(last'[1], ValueIndexOf(pairs, j))
                 IN  (pairs[j].part.type = "node" /\ v.k = "function") =>
                       IF Throws(v)
                       THEN /\ EventsOn(log', n, {"console.error"}) # {}
                            /\ nodes'[n].data = <<>>
                            /\ \A j2 \in (j+1)..Len(pairs) :
                                 LET n2 == pairs[j2].node
                                     v2 == At(last'[1], ValueIndexOf(pairs, j2))
                                 IN  /\ \E k \in EventsOn(log', n,
                                                         {"console.error"}) :
                                          \E k2 \in EventsOn(log', n2,
                                                     {"textContent", "insertBefore",
                                                      "console.error"}) : k2 > k
                                     /\ v2.k = "string" => nodes'[n2].data = v2.s
                                     /\ (~Throws(v2) /\ Final(v2).k = "string")
                                          => nodes'[n2].data = Final(v2).s
                                     /\ v2.k = "array" =>
                                          EventsOn(log', n2, {"insertBefore"}) # {}
                       ELSE Final(v).k = "string" => nodes'[n].data = Final(v).s
    ]_vars

\* The first slot's callable threw and was reported, its anchor is empty,
\* and the second slot then resolved its own callable to "w".
C7_Witness ==
  /\ templateInstances[1] # 0
  /\ Len(insts[templateInstances[1]].parts) = 2
  /\ last[1] = <<Fn(FnThrows), Fn(Str(<<"w">>))>>
  /\ ~exc
  /\ LET n1 == insts[templateInstances[1]].parts[1].node
         n2 == insts[templateInstances[1]].parts[2].node
     IN  /\ EventsOn(log, n1, {"console.error"}) # {}
         /\ nodes[n1].data = <<>>
         /\ EventsOn(log, n2, {"textContent"}) # {}
         /\ nodes[n2].data = <<"w">>

\* C8 (Template identity): after every step two TemplateResults have the
\* same Template exactly when they come from the same literal; each
\* literal's cache entry is a Template compiled from that literal; no two
\* Templates are compiled from one literal; literals with the same text
\* have different Templates; and a step never replaces a cache entry or
\* changes a compiled Template.
C8_TemplateIdentity ==
  [][ /\ \A r1 \in results', r2 \in results' :
           (r1.result.t = r2.result.t) <=> (r1.strings = r2.strings)
      /\ \A l \in Literals :
           templates'[l] # 0 => tmpls'[templates'[l]].strings = l
      /\ \A t1 \in 1..Len(tmpls'), t2 \in 1..Len(tmpls') :
           tmpls'[t1].strings = tmpls'[t2].strings => t1 = t2
      /\ \A l1 \in Literals, l2 \in Literals :
           ( /\ l1 # l2 /\ stringsOf(l1) = stringsOf(l2)
             /\ templates'[l1] # 0 /\ templates'[l2] # 0 )
           => templates'[l1] # templates'[l2]
      /\ \A l \in Literals :
           templates[l] # 0 =>
              /\ templates'[l] = templates[l]
              /\ tmpls'[templates[l]] = tmpls[templates[l]]
              /\ ~HasEvent(log', {"new Template"}) \/ log'[1].inst # templates[l]
    ]_vars

\* The client holds a result of literal 2 and a result of literal 3, which
\* have the same text, with different Templates, the last html call having
\* found its Template in the cache.
C8_Witness ==
  /\ \E r1 \in results, r2 \in results :
       /\ r1.strings = 2 /\ r2.strings = 3
       /\ r1.result.t # r2.result.t
  /\ \E r1 \in results, r2 \in results :
       /\ r1 # r2 /\ r1.strings = r2.strings /\ r1.result.t = r2.result.t
  /\ renders = 0 /\ log = <<>>

\* C9 (render routing): every renderTo step is, for one container c,
\* either the first render of c -- c had no recorded instance; a new
\* TemplateInstance is created and recorded for c; exactly one appendChild
\* puts the nodes of its clone into c -- or a later render of c -- no
\* instance is created, nothing is appended, c keeps its recorded
\* instance, and the step starts with that instance's update() on the
\* result's values; and the step leaves the record of every other
\* container as it was.
C9_RenderRouting ==
  [][ renders' = renders + 1 =>
        \E c \in Containers :
          /\ \A c2 \in Containers \ {c} :
               templateInstances'[c2] = templateInstances[c2]
          /\ IF templateInstances[c] = 0
             THEN /\ Len(insts') = Len(insts) + 1
                  /\ templateInstances'[c] = Len(insts')
                  /\ log'[1] = Event("new TemplateInstance", 0, Len(insts'), "",
                                     <<>>, <<>>, <<>>)
                  /\ Cardinality(EventsOn(log', c, {"appendChild"})) = 1
                  /\ \A k \in 1..Len(log') :
                       log'[k].op = "appendChild" =>
                          /\ log'[k].node = c
                          /\ log'[k].inst = templateInstances'[c]
                          /\ log'[k].ns # <<>>
                          /\ nodes'[c].children = nodes[c].children \o log'[k].ns
                  /\ Event("update", 0, templateInstances'[c], "", <<>>,
                           last'[c], <<>>) \in ToSet(log')
             ELSE /\ Len(insts') = Len(insts)
                  /\ ~HasEvent(log', {"appendChild", "new TemplateInstance"})
                  /\ templateInstances'[c] = templateInstances[c]
                  /\ nodes'[c].children = nodes[c].children
                  /\ log'[1] = Event("update", 0, templateInstances[c], "", <<>>,
                                     last'[c], <<>>)
    ]_vars

\* Both containers have a recorded instance and the last step was a later
\* render of container 1: an update() of its instance, nothing appended.
C9_Witness ==
  /\ renders >= 3
  /\ templateInstances[1] # 0 /\ templateInstances[2] # 0
  /\ templateInstances[1] # templateInstances[2]
  /\ Len(nodes[1].children) = 1 /\ Len(nodes[2].children) = 1
  /\ log # <<>>
  /\ log[1] = Event("update", 0, templateInstances[1], "", <<>>, last[1], <<>>)
  /\ ~HasEvent(log, {"appendChild"})

\* C10 (binding completeness): the (Part, node) list of every container's
\* instance holds the Parts of the instance's Template, each once and in
\* Part order, each paired with the node at the Part's position in the
\* document-order walk of the clone.
C10_BindingComplete ==
  \A c \in Containers :
    templateInstances[c] # 0 =>
      LET inst == insts[templateInstances[c]]
          parts == tmpls[inst.template].parts
      IN  /\ Len(inst.parts) = Len(parts)
          /\ \A j \in 1..Len(parts) :
               /\ inst.parts[j].part = parts[j]
               /\ inst.parts[j].node = Walk(nodes, c)[parts[j].index + 1]

\* C11 (Part positions): in every compiled Template the positions of the
\* Parts are pairwise distinct and ascending along the Part list.
C11_PartPositions ==
  \A t \in 1..Len(tmpls) :
    \A j1 \in 1..Len(tmpls[t].parts), j2 \in 1..Len(tmpls[t].parts) :
      j1 < j2 => tmpls[t].parts[j1].index < tmpls[t].parts[j2].index

\* The number of marker tokens in a text.
Markers(str) == Cardinality({i \in 1..Len(str) : str[i] = exprMarker})

\* The number of marker tokens in the text nodes i.. of a parsed tree.
RECURSIVE TextMarkers(_, _)
TextMarkers(tree, i) ==
  IF i > Len(tree) THEN 0
  ELSE (IF tree[i].type = "text" THEN Markers(tree[i].data) ELSE 0)
       + TextMarkers(tree, i + 1)

NodePartsOf(t) == SelectSeq(tmpls[t].parts, LAMBDA q : q.type = "node")

\* C12 (compile-time text splitting): in every compiled Template each text
\* node of the parsed HTML that held marker tokens has been replaced: no
\* text node of the fragment holds a marker, there is one node Part per
\* marker of the parsed text nodes, and each node Part's position is, in a
\* fresh document-order walk of the fragment, an empty text node between
\* two text siblings (its literals).
C12_TextSplitting ==
  \A t \in 1..Len(tmpls) :
    LET w == Walk(nodes, tmpls[t].element)
        parts == NodePartsOf(t)
    IN  /\ \A k \in 1..Len(w) :
             nodes[w[k]].type = "text" => Markers(nodes[w[k]].data) = 0
        /\ Len(parts) =
             TextMarkers(ParseHTML(_getTemplateHtml(stringsOf(tmpls[t].strings))), 1)
        /\ \A j \in 1..Len(parts) :
             LET p == parts[j].index
             IN  /\ p >= 1 /\ p + 2 <= Len(w)
                 /\ nodes[w[p + 1]].type = "text" /\ nodes[w[p + 1]].data = <<>>
                 /\ nodes[w[p]].type = "text" /\ nodes[w[p + 2]].type = "text"
                 /\ nodes[w[p]].parent = nodes[w[p + 1]].parent
                 /\ nodes[w[p + 2]].parent = nodes[w[p + 1]].parent

\* The number of values that update() takes for the (Part, node) list pairs.
Consumed(pairs) == ValueIndexOf(pairs, Len(pairs) + 1) - 1

\* C13 (value consumption): after every update() of a container's
\* instance each bound node shows the values at the positions that the
\* Parts before it leave (m-1 values for an attribute Part of m segments,
\* one for a node Part), and the number of values the update takes is the
\* number of dynamic slots of the literal of the instance's Template.
C13_ValueConsumption ==
  \A c \in Containers :
    templateInstances[c] # 0 =>
      LET inst == insts[templateInstances[c]]
      IN  /\ OwnValues(nodes, inst.parts, last[c], c)
          /\ Consumed(inst.parts) = Slots(tmpls[inst.template].strings)

\* The text s0 + r0 + s1 + ... + sk of segments and the resolved values
\* from position vi on.
RECURSIVE JoinedResolved(_, _, _)
JoinedResolved(strings, values, vi) ==
  IF Len(strings) = 1 THEN strings[1]
  ELSE strings[1] \o toText(Final(At(values, vi)))
       \o JoinedResolved(Tail(strings), values, vi + 1)

\* C14 (attribute values are resolved): after every update() of a
\* container's instance each bound attribute holds its segments interleaved
\* with the text of the resolved values: a callable is called until it
\* yields a value that is not callable, and that value is coerced to text.
C14_AttributeResolved ==
  \A c \in Containers :
    templateInstances[c] # 0 =>
      LET pairs == insts[templateInstances[c]].parts
      IN  \A j \in 1..Len(pairs) :
            pairs[j].part.type = "attribute" =>
              AttrValue(nodes, pairs[j].node, pairs[j].part.name)
                = JoinedResolved(pairs[j].part.strings, last[c],
                                 ValueIndexOf(pairs, j))

\* The kinds and tags of the nodes ids.
RECURSIVE Kinds(_, _)
Kinds(ns, ids) ==
  IF ids = <<>> THEN <<>>
  ELSE << <<ns[Head(ids)].type, ns[Head(ids)].name>> >> \o Kinds(ns, Tail(ids))

\* C15 (nested-instance replacement): on a renderTo step that gives a node
\* slot a TemplateResult while the slot records no instance or an instance
\* of another Template, afterwards the anchor's text is empty, the slot
\* records an instance constructed in the step whose Template is the
\* result's, the instance's start sentinel is the anchor's next sibling,
\* the copies of the Template's top-level nodes and then the end sentinel
\* follow it, and the instance's update() was called with the result's
\* values.
C15_NestedReplacement ==
  [][ Rendered(1) =>
        LET pairs == insts'[templateInstances'[1]].parts
        IN  \A j \in 1..Len(pairs) :
              LET n == pairs[j].node
                  v == At(last'[1], ValueIndexOf(pairs, j))
                  old == IF n <= Len(nodes) THEN nodes[n].ti ELSE 0
                  i == nodes'[n].ti
                  ch == nodes'[nodes'[n].parent].children
              IN  ( /\ pairs[j].part.type = "node"
                    /\ v.k = "result"
                    /\ (old = 0 \/ insts[old].template # v.t) )
                  => /\ nodes'[n].data = <<>>
                     /\ i > Len(insts)
                     /\ insts'[i].template = v.t
                     /\ insts'[i].startNode # 0
                     /\ nextSibling(nodes', n) = insts'[i].startNode
                     /\ insts'[i].endNode \in ToSet(After(ch, insts'[i].startNode))
                     /\ Kinds(nodes', Before(After(ch, insts'[i].startNode),
                                             insts'[i].endNode))
                          = Kinds(nodes', nodes'[tmpls[v.t].element].children)
                     /\ Event("update", 0, i, "", <<>>, v.vs, <<>>) \in ToSet(log')
    ]_vars

\* The last renderTo replaced the nested instance of one Template by a new
\* instance of another Template.
C15_Witness ==
  /\ renders >= 2
  /\ HasEvent(log, {"removeChild"})
  /\ HasEvent(log, {"new TemplateInstance"})
  /\ log[1].op = "update"
  /\ \E n \in 1..Len(nodes) :
       /\ nodes[n].ti # 0
       /\ nodes[n].parent # 0
       /\ nextSibling(nodes, n) = insts[nodes[n].ti].startNode

\* C16 (iterable re-render replaces): on a renderTo step that gives an
\* array of strings to a node slot whose previous value was an array, the
\* nodes that the previous update inserted after the anchor are no longer
\* in the parent, and the items of the new array are the nodes right after
\* the anchor.
C16_IterableReplaced ==
  [][ (Rendered(1) /\ templateInstances[1] # 0) =>
        LET pairs == insts[templateInstances[1]].parts
        IN  \A j \in 1..Len(pairs) :
              LET n == pairs[j].node
                  old == At(last[1], ValueIndexOf(pairs, j))
                  v == At(last'[1], ValueIndexOf(pairs, j))
                  oldItems == SubSeq(After(nodes[nodes[n].parent].children, n),
                                     1, Len(old.vs))
                  items == SubSeq(After(nodes'[nodes'[n].parent].children, n),
                                  1, Len(v.vs))
              IN  ( /\ pairs[j].part.type = "node"
                    /\ old.k = "array" /\ v.k = "array"
                    /\ \A m \in 1..Len(v.vs) : v.vs[m].k = "string" )
                  => /\ \A m \in 1..Len(oldItems) : nodes'[oldItems[m]].parent = 0
                     /\ Len(items) = Len(v.vs)
                     /\ \A m \in 1..Len(items) : nodes'[items[m]].data = v.vs[m].s
    ]_vars

\* The value that a node slot renders for the value v it is given.
Resolved(v) == IF Throws(v) THEN Undefined ELSE Final(v)

\* C17 (occupancy record): in every state, for each bound node slot of a
\* container's instance, the anchor records an instance exactly when the
\* value last rendered into the slot is a TemplateResult, and the recorded
\* instance's Template is that result's Template.
C17_OccupancyRecord ==
  \A c \in Containers :
    templateInstances[c] # 0 =>
      LET pairs == insts[templateInstances[c]].parts
      IN  \A j \in 1..Len(pairs) :
            LET n == pairs[j].node
                v == Resolved(At(last[c], ValueIndexOf(pairs, j)))
            IN  pairs[j].part.type = "node" =>
                  /\ (nodes[n].ti # 0) <=> (v.k = "result")
                  /\ nodes[n].ti # 0 => insts[nodes[n].ti].template = v.t

\* The last renderTo gave a plain value to a slot that held a nested
\* instance: the instance's range was cleaned up and the record is clear.
C17_Witness ==
  /\ renders >= 2
  /\ HasEvent(log, {"removeChild"})
  /\ ~HasEvent(log, {"new TemplateInstance"})
  /\ templateInstances[1] # 0
  /\ Len(insts[templateInstances[1]].parts) = 1
  /\ nodes[insts[templateInstances[1]].parts[1].node].ti = 0
  /\ last[1] = <<x>>

\* The nodes that the removeChild events of l removed.
Removed(l) == {l[k].node : k \in {j \in 1..Len(l) : l[j].op = "removeChild"}}

\* C18 (cleanup frame): on a renderTo step that cleans a slot up, every
\* removed node was between the recorded instance's start sentinel and its
\* end sentinel; the anchor, the siblings before the start sentinel and the
\* siblings after the end sentinel are still in the parent, and the nodes
\* that were not removed keep their order; the step ends without an
\* exception; and after every step each recorded instance's start and end
\* sentinel are siblings of the anchor, the start after the anchor and the
\* end after the start.
C18_CleanupFrame ==
  [][ /\ \A n \in 1..Len(nodes) :
           (renders' = renders + 1 /\ nodes[n].ti # 0 /\ Removed(log') # {}) =>
              LET inst == insts[nodes[n].ti]
                  ch == nodes[nodes[n].parent].children
                  range == Before(After(ch, n), inst.endNode)
              IN  /\ inst.startNode = range[1]
                  /\ Removed(log') \subseteq ToSet(range) \cup {inst.endNode}
                  /\ nodes'[n].parent = nodes[n].parent
                  /\ \A z \in ToSet(Before(ch, inst.startNode))
                            \cup ToSet(After(ch, inst.endNode)) :
                       nodes'[z].parent = nodes[n].parent
                  /\ IsSubsequence(SelectSeq(ch, LAMBDA z : z \notin Removed(log')),
                                   nodes'[nodes[n].parent].children)
                  /\ exc' = FALSE
      /\ \A n \in 1..Len(nodes') :
           nodes'[n].ti # 0 =>
              LET inst == insts'[nodes'[n].ti]
                  ch == nodes'[nodes'[n].parent].children
              IN  /\ nodes'[n].parent # 0
                  /\ inst.startNode \in ToSet(After(ch, n))
                  /\ inst.endNode \in ToSet(After(ch, inst.startNode))
    ]_vars

\* The last renderTo cleaned a slot up: it removed at least two nodes, the
\* anchor is still in its parent, and a literal text follows it.
C18_Witness ==
  /\ renders >= 2 /\ ~exc
  /\ Cardinality(Removed(log)) >= 2
  /\ \A z \in Removed(log) : nodes[z].parent = 0
  /\ templateInstances[1] # 0
  /\ Len(insts[templateInstances[1]].parts) = 1
  /\ LET n == insts[templateInstances[1]].parts[1].node
     IN  nodes[n].parent # 0 /\ nextSibling(nodes, n) # 0

\* C19 (no stale text on kind switch): on a renderTo step that updates an
\* existing instance, a node slot whose anchor held non-empty text and that
\* is given an array or a TemplateResult has an anchor with empty text
\* after the step.
C19_NoStaleText ==
  [][ (Rendered(1) /\ templateInstances[1] # 0) =>
        LET pairs == insts[templateInstances[1]].parts
        IN  \A j \in 1..Len(pairs) :
              LET n == pairs[j].node
                  v == Resolved(At(last'[1], ValueIndexOf(pairs, j)))
              IN  ( /\ pairs[j].part.type = "node"
                    /\ nodes[n].data # <<>>
                    /\ v.k \in {"array", "result"} )
                  => nodes'[n].data = <<>>
    ]_vars

\* C20 (slot-count mismatch is detectable): a renderTo step whose update()
\* is given fewer values than the bound nodes of the instance take ends
\* with an exception or reports an error.
C20_MismatchDetected ==
  [][ \A c \in Containers :
        ( /\ Rendered(c)
          /\ Len(last'[c]) < Consumed(insts'[templateInstances'[c]].parts) )
        => (exc' \/ HasEvent(log', {"console.error"}))
    ]_vars

====
